---- MODULE Spec2Model ----
(***************************************************************************)
(* TranscriptionEngine of wisprtux (gui/transcription_engine.py) and the   *)
(* window_tracker helpers it calls: the controlling thread's calls         *)
(* (start_recording, stop_recording, the setters) interleaved with the     *)
(* statements of the worker threads (_worker_loop, _load_model,            *)
(* _route_final_text).                                                     *)
(***************************************************************************)
EXTENDS Integers, Sequences, FiniteSets, TLC

VARIABLES
    _model,          \* cached model handle: None, or the weights it was loaded from
    _model_name,     \* selected model identifier
    _offline,
    _recording,
    _auto_clipboard,
    _auto_type,
    _stop_event,     \* threading.Event: TRUE when set
    _worker_thread,  \* slot of the thread spawned last, 0 before the first
    _origin_window,  \* None, or the WindowSnapshot taken by start_recording
    files,           \* weight files present in MODELS_DIR
    workers,         \* slot -> position and locals of a _worker_loop thread, and
                     \* the identifier that was selected when it was started
    ncalls,          \* calls made so far by the controlling thread
    step,            \* what the last step was and what it emitted / called
    results,         \* per inference cycle of the session: the text it produced
    events,          \* transcript events emitted so far, with their cycle
    _is_recording,   \* RecordingView: what the record button believes
    hotkey,          \* SettingsView: settings["hotkey"], a GDK key name
    _target_key      \* GlobalHotkey: the pynput key the listener compares with

vars == <<_model, _model_name, _offline, _recording, _auto_clipboard, _auto_type,
          _stop_event, _worker_thread, _origin_window, files, workers, ncalls,
          step, results, events, _is_recording, hotkey, _target_key>>

gui == <<_is_recording, hotkey, _target_key>>

engine == <<_model, _model_name, _offline, _recording, _auto_clipboard, _auto_type,
            _stop_event, _worker_thread, _origin_window>>

----------------------------------------------------------------------------
\* Bounds of the model.

\* calls of the controlling thread in one behaviour
MaxCalls == 3
\* inference cycles recorded in a session (SegSpec)
MaxCycles == 6
\* window lengths from WindowCap on are identified where the length is not recorded
WindowCap == 1

----------------------------------------------------------------------------
\* Values.

None == "None"

\* thread slots: a second thread can be alive only after a stop and another start,
\* so MaxCalls calls leave at most (MaxCalls + 1) \div 2 threads alive at once
Slots == 1..((MaxCalls + 1) \div 2)

\* identifiers offered to set_model
ModelIds == {"tiny.en", "large"}

\* X11 window ids xdotool getactivewindow may print
WindowIds == {"0x2a"}

\* what model.transcribe returns under "text" (or that it raised)
Raise == "<raise>"
RawTexts == {"", " ", " hi", " hello", " hello world", Raise}

\* the texts used where two sessions run side by side
FewRawTexts == {"", " hi", Raise}

----------------------------------------------------------------------------
\* Pure parts of the code.

\* MODEL_FILES and MODEL_FILES.get(name, "tiny.en.pt")
MODEL_FILES ==
    [n \in {"tiny.en", "base.en", "small.en", "medium.en", "large"} |->
        CASE n = "tiny.en"   -> "tiny.en.pt"
          [] n = "base.en"   -> "base.en.pt"
          [] n = "small.en"  -> "small.en.pt"
          [] n = "medium.en" -> "medium.en.pt"
          [] n = "large"     -> "large.pt"]

FileNameOf(name) ==
    IF name \in DOMAIN MODEL_FILES THEN MODEL_FILES[name] ELSE "tiny.en.pt"

\* self._model_name.replace(".en", "")
ModelSize(name) ==
    CASE name = "tiny.en"   -> "tiny"
      [] name = "base.en"   -> "base"
      [] name = "small.en"  -> "small"
      [] name = "medium.en" -> "medium"
      [] OTHER              -> name

\* the file whisper.load_model(size, download_root=MODELS_DIR) leaves in MODELS_DIR
DownloadedFile(size) == size \o ".pt"

\* mutant of LoadPath: the offline flag is not consulted before downloading
LoadPath_download_when_offline(name, offline, present) ==
    IF FileNameOf(name) \in present
    THEN [kind |-> "local", arg |-> FileNameOf(name)]
    ELSE [kind |-> "download", arg |-> ModelSize(name)]

\* mutant of LoadPath: the download is tried first whenever it is allowed
LoadPath_prefer_download(name, offline, present) ==
    IF ~offline
    THEN [kind |-> "download", arg |-> ModelSize(name)]
    ELSE IF FileNameOf(name) \in present
         THEN [kind |-> "local", arg |-> FileNameOf(name)]
         ELSE [kind |-> "offline", arg |-> FileNameOf(name)]

\* the branch _load_model takes: [kind, arg] with kind local / download / offline
LoadPath(name, offline, present) ==
    IF FileNameOf(name) \in present
    THEN [kind |-> "local", arg |-> FileNameOf(name)]
    ELSE IF ~offline
         THEN [kind |-> "download", arg |-> ModelSize(name)]
         ELSE [kind |-> "offline", arg |-> FileNameOf(name)]

\* int(16000 * transcribe_interval / 1024) with transcribe_interval = 0.5
SAMPLE_RATE == 16000
FRAMES_PER_BUFFER == 1024
ChunksPerInterval == (SAMPLE_RATE * 5) \div (10 * FRAMES_PER_BUFFER)

\* result.get("text", "").strip(), and "" when transcribe raised or there is no model
Strip(raw) ==
    CASE raw = " "             -> ""
      [] raw = " hi"           -> "hi"
      [] raw = " hello"        -> "hello"
      [] raw = " hello world"  -> "hello world"
      [] OTHER                 -> raw

\* mutant of CycleText: the exception of transcribe is taken for its text
CycleText_raise_as_text(handle, raw) ==
    IF handle = None THEN "" ELSE Strip(raw)

CycleText(handle, raw) ==
    IF handle = None \/ raw = Raise THEN "" ELSE Strip(raw)

\* the locals of the capture loop
LoopLocals == [window |-> 0, chunk_count |-> 0, prev_text |-> "", stable_cycles |-> 0]

\* mutant of AppendFrame: the window keeps the frames of the current interval only
AppendFrame_sliding(l, cap) ==
    [l EXCEPT !.window = IF l.chunk_count = 0 THEN 1
                         ELSE IF l.window < cap THEN l.window + 1 ELSE l.window,
              !.chunk_count = l.chunk_count + 1]

\* window.append(data); chunk_count += 1
AppendFrame(l, cap) ==
    [l EXCEPT !.window = IF l.window < cap THEN l.window + 1 ELSE l.window,
              !.chunk_count = l.chunk_count + 1]

\* if chunk_count >= chunks_per_interval and window
CycleDue(l) == l.chunk_count >= ChunksPerInterval /\ l.window > 0

\* mutant of Compare: a changed text starts the count at 1
Compare_count_from_one(l, text) ==
    IF text = l.prev_text
    THEN [l EXCEPT !.stable_cycles = l.stable_cycles + 1]
    ELSE [l EXCEPT !.stable_cycles = 1, !.prev_text = text]

\* mutant of Compare: a changed text replaces prev_text but keeps the count
Compare_keep_count(l, text) ==
    IF text = l.prev_text
    THEN [l EXCEPT !.stable_cycles = l.stable_cycles + 1]
    ELSE [l EXCEPT !.prev_text = text]

\* mutant of Compare: a changed text also drops the frames gathered so far
Compare_drop_window(l, text) ==
    IF text = l.prev_text
    THEN [l EXCEPT !.stable_cycles = l.stable_cycles + 1]
    ELSE [l EXCEPT !.stable_cycles = 0, !.prev_text = text, !.window = 0]

\* mutant of Compare: a repeated text counts twice
Compare_count_by_two(l, text) ==
    IF text = l.prev_text
    THEN [l EXCEPT !.stable_cycles = l.stable_cycles + 2]
    ELSE [l EXCEPT !.stable_cycles = 0, !.prev_text = text]

\* if text == prev_text: stable_cycles += 1  else: stable_cycles = 0; prev_text = text
Compare(l, text) ==
    IF text = l.prev_text
    THEN [l EXCEPT !.stable_cycles = l.stable_cycles + 1]
    ELSE [l EXCEPT !.stable_cycles = 0, !.prev_text = text]

\* mutants of IsStable: the threshold off by one, either way
IsStable_after_two(l) == l.stable_cycles >= 1
IsStable_after_four(l) == l.stable_cycles >= 3

\* if stable_cycles >= 2
IsStable(l) == l.stable_cycles >= 2

\* mutant of ResetSegment: the hypothesis is kept
ResetSegment_keeps_text(l) == [l EXCEPT !.window = 0, !.stable_cycles = 0]

\* mutant of ResetSegment: only the window is cleared
ResetSegment_window_only(l) == [l EXCEPT !.window = 0]

\* window = []; prev_text = ""; stable_cycles = 0
ResetSegment(l) ==
    [l EXCEPT !.window = 0, !.prev_text = "", !.stable_cycles = 0]

\* what a step emits or calls: kind k, value v, outcome ok
Status(text) == [k |-> "status", v |-> text, ok |-> TRUE]
Transcript(is_partial, text) ==
    [k |-> IF is_partial THEN "partial" ELSE "final", v |-> text, ok |-> TRUE]
Call(name, arg, ok) == [k |-> name, v |-> arg, ok |-> ok]

\* WindowSnapshot(): window_id is what get_active_window() returned (None when
\* xdotool failed); NoSnapshot is the None the field holds before the first start
Snapshot(id) == [taken |-> TRUE, window_id |-> id]
NoSnapshot == [taken |-> FALSE, window_id |-> None]
Valid(snap) == snap.window_id # None

\* focus_window(window_id): False without running xdotool for an empty id,
\* else whether xdotool windowactivate succeeded (r)
FocusWindow(window_id, r) ==
    IF window_id = None \/ window_id = "" THEN FALSE ELSE r

\* type_text(text): False for an empty text, else whether xdotool type succeeded
TypeText(text, r) == IF text = "" THEN FALSE ELSE r

\* mutant of RouteCalls: the typing branch does not consult _auto_type
RouteCalls_type_unasked(text, clip, type, origin, cok, fok, tok) ==
    IF text = "" THEN <<>>
    ELSE (IF clip THEN <<Call("set_clipboard", text, cok)>> ELSE <<>>)
         \o
         (IF origin.taken /\ Valid(origin)
          THEN <<Call("focus_window", origin.window_id,
                      FocusWindow(origin.window_id, fok)),
                 Call("type_text", text, TypeText(text, tok))>>
          ELSE <<>>)

\* mutant of RouteCalls: a failed copy ends the routing
RouteCalls_stop_at_failed_copy(text, clip, type, origin, cok, fok, tok) ==
    IF text = "" THEN <<>>
    ELSE (IF clip THEN <<Call("set_clipboard", text, cok)>> ELSE <<>>)
         \o
         (IF (clip => cok) /\ type /\ origin.taken /\ Valid(origin)
          THEN <<Call("focus_window", origin.window_id,
                      FocusWindow(origin.window_id, fok)),
                 Call("type_text", text, TypeText(text, tok))>>
          ELSE <<>>)

\* _route_final_text: the external calls it makes, in order; cok, fok, tok are
\* what xclip / xdotool do when run
RouteCalls(text, clip, type, origin, cok, fok, tok) ==
    IF text = "" THEN <<>>
    ELSE (IF clip THEN <<Call("set_clipboard", text, cok)>> ELSE <<>>)
         \o
         (IF type /\ origin.taken /\ Valid(origin)
          THEN <<Call("focus_window", origin.window_id,
                      FocusWindow(origin.window_id, fok)),
                 Call("type_text", text, TypeText(text, tok))>>
          ELSE <<>>)

----------------------------------------------------------------------------
\* The hotkey: GDK key names, the pynput keys the listener sees, and the
\* conversion between them; a name that is neither special nor one character
\* long has no pynput key.
_SPECIAL_KEYS == [F9 |-> "f9", F10 |-> "f10"]
DEFAULT_SETTINGS == [hotkey |-> "F9"]
KeyNames == {"F9", "F10", "Control_L"}
PynputKeys == {"f9", "f10"}

\* str.lower() of a one-character name
Lower(c) == IF c = "A" THEN "a" ELSE IF c = "B" THEN "b" ELSE c

_gdk_name_to_pynput(key_name) ==
    IF key_name \in DOMAIN _SPECIAL_KEYS THEN _SPECIAL_KEYS[key_name]
    ELSE IF Len(key_name) = 1 THEN Lower(key_name)
    ELSE None

\* State after TranscriptionEngine() (__init__), MODELS_DIR holding any of the
\* weight files of the offered models.

NoThread ==
    [pc |-> "idle", sel |-> "", origin |-> NoSnapshot, load_kind |-> "",
     load_arg |-> "", text |-> "", loc |-> LoopLocals]

\* auto_type: the stored setting SettingsView._apply_settings hands to
\* set_auto_type when the window is built (False for the engine alone)
InitWith(auto_type) ==
    /\ _model = None
    /\ _model_name = "tiny.en"
    /\ _offline = FALSE
    /\ _recording = FALSE
    /\ _auto_clipboard = FALSE
    /\ _auto_type = auto_type
    /\ _stop_event = FALSE
    /\ _worker_thread = 0
    /\ _origin_window = NoSnapshot
    /\ files \in SUBSET {FileNameOf("tiny.en")}
    /\ workers = [w \in Slots |-> NoThread]
    /\ ncalls = 0
    /\ step = [op |-> "init", w |-> 0, out |-> <<>>]
    /\ results = <<>>
    /\ events = <<>>
    /\ _is_recording = FALSE
    /\ hotkey = DEFAULT_SETTINGS.hotkey
    /\ _target_key = _gdk_name_to_pynput(hotkey)

Init == InitWith(FALSE)

Alive(w) == workers[w].pc \notin {"idle", "dead"}

\* a slot for a new thread: the lowest one whose thread never ran or has ended
FreeSlots == {w \in Slots : ~Alive(w)}
NewSlot == CHOOSE w \in FreeSlots : \A v \in FreeSlots : w <= v

Emit(op, w, out) == step' = [op |-> op, w |-> w, out |-> out]

\* a step of the engine: the views are not touched
Did(op, w, out) == Emit(op, w, out) /\ UNCHANGED gui

----------------------------------------------------------------------------
\* The controlling thread.

engine_start_recording ==
    /\ ncalls < MaxCalls
    /\ ncalls' = ncalls + 1
    /\ IF _recording
       THEN /\ UNCHANGED <<engine, workers>>
            /\ Emit("start_recording", 0, <<>>)
       ELSE /\ FreeSlots # {}
            /\ \E id \in WindowIds \cup {None} :
                   _origin_window' = Snapshot(id)
            /\ _recording' = TRUE
            /\ _stop_event' = FALSE
            /\ _worker_thread' = NewSlot
            /\ workers' = [workers EXCEPT ![NewSlot] = [NoThread EXCEPT !.pc = "start",
                                                            !.sel = _model_name,
                                                            !.origin = _origin_window']]
            /\ Emit("start_recording", 0, <<Call("WindowSnapshot", "", TRUE),
                                           Call("Thread.start", "", TRUE)>>)
            /\ UNCHANGED <<_model, _model_name, _offline, _auto_clipboard, _auto_type>>
    /\ UNCHANGED <<files, results, events>>

engine_stop_recording ==
    /\ ncalls < MaxCalls
    /\ ncalls' = ncalls + 1
    /\ IF ~_recording
       THEN /\ UNCHANGED engine
            /\ Emit("stop_recording", 0, <<>>)
       ELSE /\ _recording' = FALSE
            /\ _stop_event' = TRUE
            /\ Emit("stop_recording", 0, <<Status("Ready")>>)
            /\ UNCHANGED <<_model, _model_name, _offline, _auto_clipboard, _auto_type,
                           _worker_thread, _origin_window>>
    /\ UNCHANGED <<files, workers, results, events>>

\* start_recording / stop_recording called with the views left alone

\* mutant of start_recording: the _recording guard is missing
start_recording_unguarded ==
    /\ ncalls < MaxCalls
    /\ ncalls' = ncalls + 1
    /\ FreeSlots # {}
    /\ \E id \in WindowIds \cup {None} :
           _origin_window' = Snapshot(id)
    /\ _recording' = TRUE
    /\ _stop_event' = FALSE
    /\ _worker_thread' = NewSlot
    /\ workers' = [workers EXCEPT ![NewSlot] = [NoThread EXCEPT !.pc = "start",
                                                            !.sel = _model_name,
                                                            !.origin = _origin_window']]
    /\ Did("start_recording", 0, <<Call("WindowSnapshot", "", TRUE),
                                   Call("Thread.start", "", TRUE)>>)
    /\ UNCHANGED <<_model, _model_name, _offline, _auto_clipboard, _auto_type>>
    /\ UNCHANGED <<files, results, events>>

start_recording == engine_start_recording /\ UNCHANGED gui

stop_recording == engine_stop_recording /\ UNCHANGED gui

set_model(model_name) ==
    /\ ncalls < MaxCalls
    /\ ncalls' = ncalls + 1
    /\ _model_name' = model_name
    /\ _model' = None
    /\ Did("set_model", 0, <<>>)
    /\ UNCHANGED <<_offline, _recording, _auto_clipboard, _auto_type, _stop_event,
                   _worker_thread, _origin_window, files, workers, results, events>>

set_offline(offline) ==
    /\ ncalls < MaxCalls
    /\ ncalls' = ncalls + 1
    /\ _offline' = offline
    /\ Did("set_offline", 0, <<>>)
    /\ UNCHANGED <<_model, _model_name, _recording, _auto_clipboard, _auto_type,
                   _stop_event, _worker_thread, _origin_window, files, workers,
                   results, events>>

set_auto_clipboard(enabled) ==
    /\ ncalls < MaxCalls
    /\ ncalls' = ncalls + 1
    /\ _auto_clipboard' = enabled
    /\ Did("set_auto_clipboard", 0, <<>>)
    /\ UNCHANGED <<_model, _model_name, _offline, _recording, _auto_type,
                   _stop_event, _worker_thread, _origin_window, files, workers,
                   results, events>>

set_auto_type(enabled) ==
    /\ ncalls < MaxCalls
    /\ ncalls' = ncalls + 1
    /\ _auto_type' = enabled
    /\ Did("set_auto_type", 0, <<>>)
    /\ UNCHANGED <<_model, _model_name, _offline, _recording, _auto_clipboard,
                   _stop_event, _worker_thread, _origin_window, files, workers,
                   results, events>>

----------------------------------------------------------------------------
\* A worker thread: _worker_loop, one action per stretch between two points
\* where the other threads can see or change what it reads.

Goto(w, pc) == workers' = [workers EXCEPT ![w].pc = pc]

Ended(w) == workers' = [workers EXCEPT ![w] = [NoThread EXCEPT !.pc = "dead"]]

\* if self._model is None  (line 189)
W_begin(w) ==
    /\ workers[w].pc = "start"
    /\ Goto(w, IF _model = None THEN "load" ELSE "rec")
    /\ Did("begin", w, <<>>)
    /\ UNCHANGED <<engine, files, ncalls, results, events>>

\* _load_model up to the call of whisper.load_model, or through the offline
\* refusal and the worker's return (lines 111-129, 190-192)
W_load(w) ==
    /\ workers[w].pc = "load"
    /\ LET path == LoadPath(_model_name, _offline, files) IN
       \/ /\ path.kind \in {"local", "download"}
          /\ workers' = [workers EXCEPT ![w].pc = "loading",
                                        ![w].load_kind = path.kind,
                                        ![w].load_arg = path.arg]
          /\ Did("load", w, <<Status("Loading model..."),
                              Call("load_model:" \o path.kind, path.arg, TRUE)>>)
          /\ UNCHANGED _recording
       \/ /\ path.kind = "offline"
          /\ Ended(w)
          /\ _recording' = FALSE
          /\ Did("load", w, <<Status("Loading model..."),
                              Status("Model not available offline")>>)
    /\ UNCHANGED <<_model, _model_name, _offline, _auto_clipboard, _auto_type,
                   _stop_event, _worker_thread, _origin_window, files, ncalls,
                   results, events>>

\* mutant of W_loaded: the worker returns after a failed load without clearing
\* _recording
W_loaded_keeps_recording(w) ==
    /\ workers[w].pc = "loading"
    /\ \/ /\ _model' = workers[w].load_arg
          /\ files' = IF workers[w].load_kind = "download"
                      THEN files \cup {DownloadedFile(workers[w].load_arg)}
                      ELSE files
          /\ workers' = [workers EXCEPT ![w].pc = "rec",
                                        ![w].load_kind = "", ![w].load_arg = ""]
          /\ Did("loaded", w, <<Status("Model loaded")>>)
       \/ /\ Ended(w)
          /\ Did("loaded", w, <<Status("Model load failed")>>)
          /\ UNCHANGED <<_model, files>>
    /\ UNCHANGED <<_model_name, _offline, _recording, _auto_clipboard, _auto_type,
                   _stop_event, _worker_thread, _origin_window, ncalls, results,
                   events>>

\* whisper.load_model(...).to(device) returns or raises (lines 121-135, 190-192)
W_loaded(w) ==
    /\ workers[w].pc = "loading"
    /\ \/ /\ _model' = workers[w].load_arg
          /\ files' = IF workers[w].load_kind = "download"
                      THEN files \cup {DownloadedFile(workers[w].load_arg)}
                      ELSE files
          /\ workers' = [workers EXCEPT ![w].pc = "rec",
                                        ![w].load_kind = "", ![w].load_arg = ""]
          /\ Did("loaded", w, <<Status("Model loaded")>>)
          /\ UNCHANGED _recording
       \/ /\ Ended(w)
          /\ _recording' = FALSE
          /\ Did("loaded", w, <<Status("Model load failed")>>)
          /\ UNCHANGED <<_model, files>>
    /\ UNCHANGED <<_model_name, _offline, _auto_clipboard, _auto_type, _stop_event,
                   _worker_thread, _origin_window, ncalls, results, events>>

\* self._emit_status("Recording...")  (line 194)
W_rec(w) ==
    /\ workers[w].pc = "rec"
    /\ Goto(w, "open")
    /\ Did("rec", w, <<Status("Recording...")>>)
    /\ UNCHANGED <<engine, files, ncalls, results, events>>

\* import pyaudio, PyAudio(), audio.open(...)  (lines 196-223); PyAudio() is
\* called outside any try, so when it raises the thread ends there
W_open(w) ==
    /\ workers[w].pc = "open"
    /\ \/ /\ workers' = [workers EXCEPT ![w].pc = "loop", ![w].loc = LoopLocals]
          /\ Did("open", w, <<Call("audio.open", "", TRUE)>>)
          /\ UNCHANGED _recording
       \/ /\ Ended(w)
          /\ _recording' = FALSE
          /\ Did("open", w, <<Status("PyAudio not installed")>>)
       \/ /\ Ended(w)
          /\ Did("open", w, <<Call("PyAudio", "", FALSE)>>)
          /\ UNCHANGED _recording
       \/ /\ Ended(w)
          /\ _recording' = FALSE
          /\ Did("open", w, <<Call("audio.open", "", FALSE), Status("Audio error"),
                              Call("audio.terminate", "", TRUE)>>)
    /\ UNCHANGED <<_model, _model_name, _offline, _auto_clipboard, _auto_type,
                   _stop_event, _worker_thread, _origin_window, files, ncalls,
                   results, events>>

\* while not self._stop_event.is_set()  (line 226)
W_loop(w) ==
    /\ workers[w].pc = "loop"
    /\ Goto(w, IF _stop_event THEN "finally" ELSE "read")
    /\ Did("loop", w, <<>>)
    /\ UNCHANGED <<engine, files, ncalls, results, events>>

\* mutant of W_read: a failed read counts toward the next cycle
W_read_failure_counts(w, cap) ==
    /\ workers[w].pc = "read"
    /\ \/ /\ workers' = [workers EXCEPT
                            ![w].pc = "loop",
                            ![w].loc.chunk_count = workers[w].loc.chunk_count + 1]
          /\ Did("read", w, <<Call("stream.read", "", FALSE)>>)
       \/ LET l == AppendFrame(workers[w].loc, cap) IN
          IF CycleDue(l)
          THEN /\ workers' = [workers EXCEPT ![w].pc = "infer",
                                             ![w].loc = [l EXCEPT !.chunk_count = 0]]
               /\ Did("read", w, <<Call("stream.read", "", TRUE),
                                   Status("Transcribing...")>>)
          ELSE /\ workers' = [workers EXCEPT ![w].pc = "loop", ![w].loc = l]
               /\ Did("read", w, <<Call("stream.read", "", TRUE)>>)
    /\ UNCHANGED <<engine, files, ncalls, results, events>>

\* stream.read(...) and what follows up to the transcribe call (lines 227-243)
W_read(w, cap) ==
    /\ workers[w].pc = "read"
    /\ \/ /\ Goto(w, "loop")
          /\ Did("read", w, <<Call("stream.read", "", FALSE)>>)
       \/ LET l == AppendFrame(workers[w].loc, cap) IN
          IF CycleDue(l)
          THEN /\ workers' = [workers EXCEPT ![w].pc = "infer",
                                             ![w].loc = [l EXCEPT !.chunk_count = 0]]
               /\ Did("read", w, <<Call("stream.read", "", TRUE),
                                   Status("Transcribing...")>>)
          ELSE /\ workers' = [workers EXCEPT ![w].pc = "loop", ![w].loc = l]
               /\ Did("read", w, <<Call("stream.read", "", TRUE)>>)
    /\ UNCHANGED <<engine, files, ncalls, results, events>>

\* mutant of W_infer: an empty text goes through the comparison like any other
W_infer_empty_resets(w, raws, rec) ==
    /\ workers[w].pc = "infer"
    /\ rec => Len(results) < MaxCycles
    /\ \E raw \in raws :
         LET text == CycleText(_model, raw)
             l    == Compare(workers[w].loc, text)
             call == Call("transcribe", "", raw # Raise /\ _model # None)
         IN
         /\ results' = IF rec THEN Append(results, text) ELSE results
         /\ IF text = ""
            THEN /\ workers' = [workers EXCEPT ![w].pc = "loop", ![w].loc = l]
                 /\ Did("infer", w, <<call, Status("Recording...")>>)
                 /\ UNCHANGED events
            ELSE IF IsStable(l)
            THEN /\ workers' = [workers EXCEPT ![w].pc = "route", ![w].loc = l,
                                               ![w].text = text]
                 /\ Did("infer", w, <<call, Transcript(FALSE, text)>>)
                 /\ events' = IF rec
                              THEN Append(events, [cycle |-> Len(results) + 1,
                                                   is_partial |-> FALSE, text |-> text])
                              ELSE events
            ELSE /\ workers' = [workers EXCEPT ![w].pc = "loop", ![w].loc = l]
                 /\ Did("infer", w, <<call, Transcript(TRUE, text),
                                      Status("Recording...")>>)
                 /\ events' = IF rec
                              THEN Append(events, [cycle |-> Len(results) + 1,
                                                   is_partial |-> TRUE, text |-> text])
                              ELSE events
    /\ UNCHANGED <<engine, files, ncalls>>

\* self._model.transcribe(...) and the classification of its text, up to the
\* emitted transcript event (lines 245-267, 272-277)
W_infer(w, raws, rec) ==
    /\ workers[w].pc = "infer"
    /\ rec => Len(results) < MaxCycles
    /\ \E raw \in raws :
         LET text == CycleText(_model, raw)
             l    == Compare(workers[w].loc, text)
             call == Call("transcribe", "", raw # Raise /\ _model # None)
         IN
         /\ results' = IF rec THEN Append(results, text) ELSE results
         /\ IF text = ""
            THEN /\ Goto(w, "loop")
                 /\ Did("infer", w, <<call, Status("Recording...")>>)
                 /\ UNCHANGED events
            ELSE IF IsStable(l)
            THEN /\ workers' = [workers EXCEPT ![w].pc = "route", ![w].loc = l,
                                               ![w].text = text]
                 /\ Did("infer", w, <<call, Transcript(FALSE, text)>>)
                 /\ events' = IF rec
                              THEN Append(events, [cycle |-> Len(results) + 1,
                                                   is_partial |-> FALSE, text |-> text])
                              ELSE events
            ELSE /\ workers' = [workers EXCEPT ![w].pc = "loop", ![w].loc = l]
                 /\ Did("infer", w, <<call, Transcript(TRUE, text),
                                      Status("Recording...")>>)
                 /\ events' = IF rec
                              THEN Append(events, [cycle |-> Len(results) + 1,
                                                   is_partial |-> TRUE, text |-> text])
                              ELSE events
    /\ UNCHANGED <<engine, files, ncalls>>

\* mutant of W_route: the status that ends the cycle is not emitted
W_route_silent(w) ==
    /\ workers[w].pc = "route"
    /\ \E cok \in BOOLEAN, fok \in BOOLEAN, tok \in BOOLEAN :
         Did("route", w,
             RouteCalls(workers[w].text, _auto_clipboard, _auto_type,
                        _origin_window, cok, fok, tok))
    /\ workers' = [workers EXCEPT ![w].pc = "loop", ![w].text = "",
                                  ![w].loc = ResetSegment(workers[w].loc)]
    /\ UNCHANGED <<engine, files, ncalls, results, events>>

\* mutant of W_route: the final text is routed twice
W_route_twice(w) ==
    /\ workers[w].pc = "route"
    /\ \E cok \in BOOLEAN, fok \in BOOLEAN, tok \in BOOLEAN :
         Did("route", w,
             RouteCalls(workers[w].text, _auto_clipboard, _auto_type,
                        _origin_window, cok, fok, tok)
             \o RouteCalls(workers[w].text, _auto_clipboard, _auto_type,
                           _origin_window, cok, fok, tok)
             \o <<Status("Recording...")>>)
    /\ workers' = [workers EXCEPT ![w].pc = "loop", ![w].text = "",
                                  ![w].loc = ResetSegment(workers[w].loc)]
    /\ UNCHANGED <<engine, files, ncalls, results, events>>

\* self._route_final_text(text), the reset of the segment and the status that
\* ends the cycle (lines 268-271, 277)
W_route(w) ==
    /\ workers[w].pc = "route"
    /\ \E cok \in BOOLEAN, fok \in BOOLEAN, tok \in BOOLEAN :
         Did("route", w,
             RouteCalls(workers[w].text, _auto_clipboard, _auto_type,
                        _origin_window, cok, fok, tok)
             \o <<Status("Recording...")>>)
    /\ workers' = [workers EXCEPT ![w].pc = "loop", ![w].text = "",
                                  ![w].loc = ResetSegment(workers[w].loc)]
    /\ UNCHANGED <<engine, files, ncalls, results, events>>

\* mutant of W_finally: a pending hypothesis is emitted as final on the way out
W_finally_flushes(w) ==
    /\ workers[w].pc = "finally"
    /\ Ended(w)
    /\ Did("finally", w,
           (IF workers[w].loc.prev_text # ""
            THEN <<Transcript(FALSE, workers[w].loc.prev_text)>> ELSE <<>>)
           \o <<Call("stream.close", "", TRUE), Status("Ready")>>)
    /\ UNCHANGED <<engine, files, ncalls, results, events>>

\* finally: stop_stream, close, terminate, emit "Ready"; the thread ends
\* (lines 278-282)
W_finally(w) ==
    /\ workers[w].pc = "finally"
    /\ Ended(w)
    /\ Did("finally", w, <<Call("stream.close", "", TRUE), Status("Ready")>>)
    /\ UNCHANGED <<engine, files, ncalls, results, events>>

Worker(w, raws, rec, cap) ==
    \/ W_begin(w)
    \/ W_load(w)
    \/ W_loaded(w)
    \/ W_rec(w)
    \/ W_open(w)
    \/ W_loop(w)
    \/ W_read(w, cap)
    \/ W_infer(w, raws, rec)
    \/ W_route(w)
    \/ W_finally(w)

----------------------------------------------------------------------------
\* The engine under any calls of the controlling thread.

Control ==
    \/ start_recording
    \/ stop_recording
    \/ \E m \in ModelIds : set_model(m)
    \/ \E b \in BOOLEAN : set_offline(b)
    \/ \E b \in BOOLEAN : set_auto_clipboard(b)
    \/ \E b \in BOOLEAN : set_auto_type(b)

Next ==
    \/ Control
    \/ \E w \in Slots : Worker(w, FewRawTexts, FALSE, WindowCap)

Spec == Init /\ [][Next]_vars

\* The worker threads are scheduled fairly, and every blocking call of a worker
\* (load_model, stream.read, transcribe, xdotool) returns.
FairSpec == Spec /\ \A w \in Slots : WF_vars(Worker(w, FewRawTexts, FALSE, WindowCap))

----------------------------------------------------------------------------
\* One session, cycle by cycle: the engine as constructed with the weights of
\* the default model in MODELS_DIR, one start_recording (taken with a window in
\* focus), at most one
\* stop_recording, and the worker fed every sequence of up to MaxCycles
\* inference results; results and events record the session.

SegWindowCap == ChunksPerInterval * (MaxCycles + 1)

SegInit == Init /\ files = {FileNameOf("tiny.en")}

SegNext ==
    \/ ncalls = 0 /\ start_recording /\ Valid(_origin_window')
    \/ ncalls = 1 /\ stop_recording
    \/ Worker(1, RawTexts, TRUE, SegWindowCap)

SegSpec == SegInit /\ [][SegNext]_vars

----------------------------------------------------------------------------
\* Reading the record of a session (SegSpec).

Ev(n, is_partial, text) == [cycle |-> n, is_partial |-> is_partial, text |-> text]

EventsAt(n) == {i \in DOMAIN events : events[i].cycle = n}

FinalAt(n) == \E i \in EventsAt(n) : ~events[i].is_partial

FinalCycles == {events[i].cycle : i \in {j \in DOMAIN events : ~events[j].is_partial}}

\* the cycle of the last final event before cycle n, 0 when there is none
SegmentStart(n) ==
    LET before == {c \in FinalCycles : c < n} IN
    IF before = {} THEN 0 ELSE CHOOSE c \in before : \A d \in before : d <= c

IsText(t) == t # ""

\* the texts of the non-empty cycles a+1..n, in order
NonEmptyTexts(a, n) == SelectSeq(SubSeq(results, a + 1, n), IsText)

\* the last three entries of s exist and are the same
ThreeAlike(s) ==
    /\ Len(s) >= 3
    /\ s[Len(s)] = s[Len(s) - 1]
    /\ s[Len(s) - 1] = s[Len(s) - 2]

----------------------------------------------------------------------------
ScenarioC == <<"", "hi", "", "hi", "hi", "hi">>

C7_ResetAfterFinal ==
    /\ step.op = "route" =>
          /\ workers[step.w].loc.window = 0
          /\ workers[step.w].loc.prev_text = ""
          /\ workers[step.w].loc.stable_cycles = 0
    /\ \A c \in FinalCycles, d \in FinalCycles :
          c < d => Len(NonEmptyTexts(c, d)) >= 3

\* C7 witness: the same text six times over, finalised at cycle 3 and again at 6
C7_Witness ==
    /\ results = <<"hi", "hi", "hi", "hi", "hi", "hi">>
    /\ FinalCycles = {3, 6}

TranscriptsOf(out) == SelectSeq(out, LAMBDA o : o.k \in {"partial", "final"})

\* C8: every cycle with a non-empty text has exactly one transcript event, with
\* that text; the step that ran the cycle emitted exactly that one event, a final
\* one iff the repeat count has reached 2; and three cycles "hello" give partial,
\* partial, final "hello".
C8_OneEventPerNonEmptyCycle ==
    /\ \A n \in 1..Len(results) :
          results[n] # "" =>
              /\ Cardinality(EventsAt(n)) = 1
              /\ \A i \in EventsAt(n) : events[i].text = results[n]
    /\ (step.op = "infer" /\ results # <<>> /\ results[Len(results)] # "") =>
          /\ Len(TranscriptsOf(step.out)) = 1
          /\ TranscriptsOf(step.out)[1].v = results[Len(results)]
          /\ (TranscriptsOf(step.out)[1].k = "final")
                <=> (workers[step.w].loc.stable_cycles >= 2)
          /\ events[Len(events)].is_partial
                <=> (TranscriptsOf(step.out)[1].k = "partial")
    /\ (Len(results) >= 3 /\ SubSeq(results, 1, 3) = <<"hello", "hello", "hello">>) =>
          SubSeq(events, 1, 3) = <<Ev(1, TRUE, "hello"), Ev(2, TRUE, "hello"),
                                   Ev(3, FALSE, "hello")>>

\* C8 witness: three cycles "hello" have run and the third emitted the final event
C8_Witness ==
    /\ results = <<"hello", "hello", "hello">>
    /\ step.op = "infer"
    /\ step.out[2] = Transcript(FALSE, "hello")

ScenarioB == <<"hello", "hello world", "hello world", "hello world">>

C9_Step ==
    LET text == results'[Len(results')] IN
    (Len(results') = Len(results) + 1 /\ text # ""
       /\ text # workers[step'.w].loc.prev_text)
    => /\ workers'[step'.w].loc.stable_cycles = 0
       /\ workers'[step'.w].loc.prev_text = text

\* C9: a cycle whose non-empty text differs from prev_text leaves the repeat count
\* 0 and prev_text the new text, and the cycles "hello", "hello world",
\* "hello world", "hello world" give partial, partial, partial and the final
\* "hello world" at cycle 4.
C9_DifferentTextResets ==
    /\ [](results = ScenarioB =>
            events = <<Ev(1, TRUE, "hello"), Ev(2, TRUE, "hello world"),
                       Ev(3, TRUE, "hello world"), Ev(4, FALSE, "hello world")>>)
    /\ [][C9_Step]_vars

\* C9 witness: scenario B has run, its second cycle having changed the text
C9_Witness == results = ScenarioB /\ FinalAt(4)

----------------------------------------------------------------------------
\* The engine under any calls (Spec, FairSpec).

InCaptureLoop(w) == workers[w].pc \in {"loop", "read", "infer", "route"}

\* C3: at most one worker thread is alive at any time.
C3_AtMostOneWorker == Cardinality({w \in Slots : Alive(w)}) <= 1

\* C4: when stop_recording has just been accepted for a session whose worker is
\* in its capture loop, that worker eventually ends.
C4_StoppedWorkerEnds ==
    \A w \in Slots :
        (step.op = "stop_recording" /\ step.out # <<>>
            /\ _worker_thread = w /\ InCaptureLoop(w))
        ~> (workers[w].pc = "dead")

C5_Step ==
    /\ (step'.op = "start_recording" /\ ncalls' # ncalls /\ _recording)
        => (UNCHANGED <<engine, files, workers>> /\ step'.out = <<>>)
    /\ (step'.op = "stop_recording" /\ ncalls' # ncalls /\ ~_recording)
        => (UNCHANGED <<engine, files, workers>> /\ step'.out = <<>>)

\* C5: a start_recording call made while _recording is true, and a stop_recording
\* call made while it is false, change no engine field and no thread, and emit and
\* call nothing (no status, no transcript event, no window snapshot, no new thread).
C5_IdleStopAndSecondStartAreNoOps == [][C5_Step]_vars

\* C5 witness: start_recording has just returned without effect, a session running
C5_Witness ==
    /\ step.op = "start_recording"
    /\ step.out = <<>>
    /\ _recording
    /\ \E w \in Slots : Alive(w)

\* C6: a routing step whose focus_window call failed has not called type_text.
C6_NoTypingAfterFailedFocus ==
    step.op = "route" =>
        \A i \in DOMAIN step.out :
            (step.out[i].k = "focus_window" /\ ~step.out[i].ok) =>
                \A j \in DOMAIN step.out : step.out[j].k # "type_text"

C10_Step ==
    \A w \in Slots :
        (workers[w].pc = "load" /\ workers'[w].pc # "load"
            /\ _offline /\ FileNameOf(_model_name) \notin files)
        => /\ step'.out = <<Status("Loading model..."),
                            Status("Model not available offline")>>
           /\ workers'[w].pc = "dead"
           /\ _model' = _model
           /\ files' = files

\* C10: a _load_model call that finds the offline flag set and no local weights
\* file of the selected model ends with "Model not available offline", makes no
\* load_model call (neither the local nor the downloading one), does not assign the
\* cached handle, and its worker ends without loading.
C10_OfflineWithoutWeightsRefuses == [][C10_Step]_vars

\* C10 witness: a worker has just been refused offline, the handle still unset
C10_Witness ==
    /\ step.op = "load"
    /\ Len(step.out) = 2
    /\ step.out[2] = Status("Model not available offline")
    /\ _offline
    /\ _model = None

\* the calls of kind k a step made
CallsOf(out, k) == SelectSeq(out, LAMBDA o : o.k = k)

C11_Step ==
    \A w \in Slots :
        /\ (workers[w].pc = "load" /\ workers'[w].pc # "load"
               /\ FileNameOf(_model_name) \in files)
           => /\ step'.out = <<Status("Loading model..."),
                               Call("load_model:local", FileNameOf(_model_name), TRUE)>>
              /\ workers'[w].pc = "loading"
              /\ workers'[w].load_kind = "local"
        /\ (workers[w].pc = "loading" /\ workers'[w].pc # "loading"
               /\ workers[w].load_kind = "local")
           => /\ files' = files
              /\ CallsOf(step'.out, "load_model:download") = <<>>

\* C11: a _load_model call that finds the weights file of the selected model in
\* MODELS_DIR calls whisper.load_model on that file and makes no downloading
\* call, with the offline flag true or false, and the load it started adds no file.
C11_LocalFileMeansLocalLoad == [][C11_Step]_vars

\* C11 witness: a worker has just begun the local load with the offline flag false
C11_Witness ==
    /\ step.op = "load"
    /\ ~_offline
    /\ FileNameOf(_model_name) \in files
    /\ step.out[2] = Call("load_model:local", FileNameOf(_model_name), TRUE)

\* the statuses with which a failed load is reported
LoadErrors == {Status("Model not available offline"), Status("Model load failed")}

\* the last step was a worker's failed load
LoadJustFailed == step.op \in {"load", "loaded"} /\ workers[step.w].pc = "dead"

C12_Step ==
    /\ \A w \in Slots :
          /\ (workers[w].pc \in {"start", "load", "loading"} /\ workers'[w] # workers[w])
             => /\ CallsOf(step'.out, "audio.open") = <<>>
                /\ TranscriptsOf(step'.out) = <<>>
          /\ (workers[w].pc \in {"load", "loading"}
                 /\ workers'[w].pc \notin {"load", "loading", "rec"})
             => /\ step'.out # <<>>
                /\ step'.out[Len(step'.out)] \in LoadErrors
                /\ ~_recording'
                /\ workers'[w].pc = "dead"
                /\ _model' = _model
    /\ (LoadJustFailed /\ step'.op = "start_recording" /\ ncalls' # ncalls)
       => /\ step'.out # <<>>
          /\ _recording'
          /\ workers'[_worker_thread'].pc = "start"

\* C12: a load that does not succeed (the offline refusal, or load_model raising)
\* ends the worker's step with an error status as the last thing emitted,
\* _recording false, the thread ended and the cached handle as it was; the worker
\* has opened no audio stream and emitted no transcript event up to there; and a
\* start_recording call that comes next is accepted and spawns a thread.
C12_LoadFailureEndsSessionIdle == [][C12_Step]_vars

\* C12 witness: load_model has just raised in a session nobody stopped, and the
\* engine is idle with the thread ended
C12_Witness ==
    /\ step = [op |-> "loaded", w |-> 1, out |-> <<Status("Model load failed")>>]
    /\ ncalls = 1
    /\ ~_recording
    /\ workers[1].pc = "dead"

\* the handles whisper.load_model gives for the identifier name: loaded from its
\* local file, or downloaded under its size name
HandlesFor(name) == {FileNameOf(name), ModelSize(name)}

\* C13: a session started after set_model(m) makes no transcribe call on a handle
\* loaded for another identifier than m.  It is stated for the sessions where m
\* is beyond doubt: a session started with "large" selected was started after
\* set_model("large") (the constructor selects "tiny.en"), and "large" is still
\* the selected identifier when the session transcribes.
C13_SessionTranscribesWithItsModel ==
    \A w \in Slots :
        (step.op = "infer" /\ step.w = w /\ _model # None
            /\ workers[w].sel = "large" /\ _model_name = "large")
        => _model \in HandlesFor("large")

\* C14: a routing step taken with _auto_clipboard true and _auto_type false has
\* called neither focus_window nor type_text, whatever the origin window.
C14_ClipboardOnlyNeverTypes ==
    (step.op = "route" /\ _auto_clipboard /\ ~_auto_type)
    => /\ CallsOf(step.out, "focus_window") = <<>>
       /\ CallsOf(step.out, "type_text") = <<>>

\* C14 witness: a final text has just been copied, not typed, with a valid origin
\* window at hand
C14_Witness ==
    /\ step.op = "route"
    /\ _auto_clipboard /\ ~_auto_type
    /\ Valid(_origin_window)
    /\ Len(CallsOf(step.out, "set_clipboard")) = 1

\* the calls _route_final_text makes
RoutingKinds == {"set_clipboard", "focus_window", "type_text"}
RoutingCallsOf(out) == SelectSeq(out, LAMBDA o : o.k \in RoutingKinds)

C15_Step ==
    \A w \in Slots :
        /\ (workers[w].pc = "infer" /\ workers'[w].pc # "infer")
           => /\ RoutingCallsOf(step'.out) = <<>>
              /\ (CallsOf(step'.out, "final") # <<>>) <=> (workers'[w].pc = "route")
              /\ workers'[w].pc = "route"
                 => /\ CallsOf(step'.out, "final")
                          = <<Transcript(FALSE, workers'[w].text)>>
                    /\ CallsOf(step'.out, "partial") = <<>>
                    /\ workers'[w].text # ""
        /\ (workers[w].pc = "route" /\ workers'[w] # workers[w])
           => /\ step'.op = "route"
              /\ TranscriptsOf(step'.out) = <<>>
              /\ \A k \in RoutingKinds : Len(CallsOf(step'.out, k)) <= 1
              /\ \A i \in DOMAIN step'.out :
                    step'.out[i].k \in {"set_clipboard", "type_text"}
                    => step'.out[i].v = workers[w].text
              /\ workers'[w].pc = "loop"

\* C15: clipboard and typing calls are made only by the routing step; a worker
\* is about to route exactly when its last cycle emitted a final event, and then
\* the text to route is that event's, non-empty; a cycle that emitted a partial
\* event or nothing is not followed by routing; the routing step copies and types
\* at most once each, with that text, and leaves the worker back in its loop.
C15_RoutingOnlyOfFinalText ==
    /\ [](/\ step.op # "route" => RoutingCallsOf(step.out) = <<>>
          /\ \A w \in Slots : workers[w].pc = "route" => workers[w].text # "")
    /\ [][C15_Step]_vars

\* C15 witness: the final text "hi" has just been copied and typed
C15_Witness ==
    /\ step.op = "route"
    /\ CallsOf(step.out, "set_clipboard") = <<Call("set_clipboard", "hi", TRUE)>>
    /\ CallsOf(step.out, "type_text") = <<Call("type_text", "hi", TRUE)>>

\* C16: a routing step taken with _auto_clipboard and _auto_type both true has
\* called set_clipboard exactly once whatever the typing calls returned, has
\* called focus_window and type_text exactly once each when the origin window is
\* valid (and not at all otherwise) whatever set_clipboard returned, and has left
\* the worker in its capture loop with the status "Recording...".
C16_CopyAndTypeIndependent ==
    (step.op = "route" /\ _auto_clipboard /\ _auto_type)
    => LET typing == IF _origin_window.taken /\ Valid(_origin_window) THEN 1 ELSE 0 IN
       /\ Len(CallsOf(step.out, "set_clipboard")) = 1
       /\ Len(CallsOf(step.out, "focus_window")) = typing
       /\ Len(CallsOf(step.out, "type_text")) = typing
       /\ step.out[Len(step.out)] = Status("Recording...")
       /\ workers[step.w].pc = "loop"

\* C16 witness: the copy has just failed and the text was typed all the same
C16_Witness ==
    /\ step.op = "route"
    /\ _auto_clipboard /\ _auto_type
    /\ CallsOf(step.out, "set_clipboard") = <<Call("set_clipboard", "hi", FALSE)>>
    /\ CallsOf(step.out, "type_text") = <<Call("type_text", "hi", TRUE)>>
    /\ workers[step.w].pc = "loop"

\* C17: whenever _recording is true a worker thread is alive (no path by which a
\* worker ends leaves the flag set behind it with no worker left).
C17_RecordingImpliesWorker == _recording => \E w \in Slots : Alive(w)

\* the step reported that the audio device could not be opened
OpenFailed(out) ==
    \E i \in DOMAIN out : out[i] \in {Status("PyAudio not installed"), Status("Audio error")}

C18_Step ==
    ~(/\ step.op = "rec"
      /\ Status("Recording...") \in {step.out[i] : i \in DOMAIN step.out}
      /\ step'.op = "open" /\ step'.w = step.w
      /\ OpenFailed(step'.out))

\* C18: no worker emits the status "Recording..." and then, as its very next
\* statement, fails to open the audio device (a session whose open fails has
\* emitted no "Recording...").
C18_NoRecordingStatusBeforeFailedOpen == [][C18_Step]_vars

\* the last step was a stream.read of worker w that raised / that returned a frame
ReadFailed(w) == step.op = "read" /\ step.w = w /\ ~step.out[1].ok
ReadReturned(w) == step.op = "read" /\ step.w = w /\ step.out[1].ok

\* C19: when a frame read of a worker has failed, then eventually that worker has
\* ended, unless a read of it returns a frame again (the error was not lasting) or
\* stop_recording is called.
C19_DeadDeviceEndsSession ==
    \A w \in Slots :
        ReadFailed(w)
        ~> (workers[w].pc = "dead" \/ ReadReturned(w) \/ step.op = "stop_recording")

\* the external calls that block: subprocess runs, device I/O, model loading and
\* inference
BlockingKinds ==
    {"WindowSnapshot", "set_clipboard", "focus_window", "type_text", "PyAudio",
     "audio.open", "audio.terminate", "stream.read", "stream.close", "transcribe",
     "load_model:local", "load_model:download"}

\* C20: a step of the controlling thread (start_recording, stop_recording) has
\* made no blocking external call.
C20_ControlCallsDoNotBlock ==
    step.op \in {"start_recording", "stop_recording"}
    => \A i \in DOMAIN step.out : step.out[i].k \notin BlockingKinds

----------------------------------------------------------------------------
\* C21: a worker that runs an inference cycle still has a model handle to call
\* (set_model during its session does not take the handle away from it).
C21_WorkerKeepsItsHandle ==
    \A w \in Slots :
        (step.op = "infer" /\ step.w = w) => _model # None

----------------------------------------------------------------------------
\* The capture loop of one session, its window counted exactly (SegSpec).

\* the session's worker is in its capture loop before and after the step
LoopStep == InCaptureLoop(1) /\ InCaptureLoop(1)'

C22_Step ==
    LoopStep =>
        /\ (workers'[1].loc.window < workers[1].loc.window)
           => /\ step'.op = "route"
              /\ workers'[1].loc.window = 0
        /\ step'.op = "route" /\ step' # step => workers'[1].loc.window = 0
        /\ CallsOf(step'.out, "final") # <<>> => workers'[1].pc = "route"

\* C22: inside the capture loop the window never gets shorter except in the step
\* that follows the emission of a final event (routing and reset), which leaves
\* it empty; every final event is followed by that step; a failed read, an empty
\* or failed inference and a partial event leave every frame in the window.
C22_WindowOnlyShrinksOnFinal == [][C22_Step]_vars

\* C22 witness: the window has just been emptied after the final event of cycle
\* 4, having held the frames of a failed inference, an empty and partial cycles
C22_Witness ==
    /\ step.op = "route"
    /\ results = <<"", "hi", "hi", "hi">>
    /\ workers[1].loc.window = 0

\* the step ran an inference cycle of the session; CycleResult is its text
CycleRan == Len(results') = Len(results) + 1
CycleResult == results'[Len(results')]

C23_Step_as_stated ==
    CycleRan =>
        LET before == workers[1].loc
            after  == workers'[1].loc
        IN  /\ (CycleResult = "" \/ CycleResult # before.prev_text)
               => after.stable_cycles = 0
            /\ (CycleResult # "" /\ CycleResult = before.prev_text)
               => after.stable_cycles = before.stable_cycles + 1

C23_Step ==
    CycleRan =>
        LET before == workers[1].loc
            after  == workers'[1].loc
        IN  /\ (CycleResult # "" /\ CycleResult # before.prev_text)
               => after.stable_cycles = 0
            /\ (CycleResult # "" /\ CycleResult = before.prev_text)
               => after.stable_cycles = before.stable_cycles + 1
            /\ CycleResult = ""
               => after.stable_cycles = before.stable_cycles

C24_Step ==
    (CycleRan /\ CycleResult = "") =>
        /\ TranscriptsOf(step'.out) = <<>>
        /\ RoutingCallsOf(step'.out) = <<>>
        /\ events' = events
        /\ workers'[1].loc = workers[1].loc
        /\ workers'[1].pc = "loop"

\* C24: a cycle whose text is empty emits no transcript event, routes nothing,
\* leaves the window, prev_text and the repeat count as they were, and goes back
\* to the head of the loop.
C24_EmptyCycleSkipsClassification == [][C24_Step]_vars

\* C24 witness: an empty cycle has just run with a hypothesis pending and 21
\* frames in the window, and left all of it
C24_Witness ==
    /\ step.op = "infer"
    /\ results = <<"hello", "hello", "">>
    /\ workers[1].loc = [window |-> 3 * ChunksPerInterval, chunk_count |-> 0,
                         prev_text |-> "hello", stable_cycles |-> 1]
    /\ Len(events) = 2

C25_Step ==
    (CycleRan /\ CallsOf(step'.out, "transcribe") # <<>>
        /\ ~CallsOf(step'.out, "transcribe")[1].ok)
    => /\ CycleResult = ""
       /\ Len(CallsOf(step'.out, "transcribe")) = 1
       /\ TranscriptsOf(step'.out) = <<>>
       /\ events' = events
       /\ workers'[1].loc = workers[1].loc
       /\ workers'[1].loc.chunk_count = 0
       /\ workers'[1].pc = "loop"
       /\ step'.out[Len(step'.out)] = Status("Recording...")
       /\ UNCHANGED _recording

\* C25: a cycle whose transcribe call raised has the empty text as its result,
\* made that one call only, emitted no transcript event, left the window,
\* prev_text and the repeat count as they were, and is back at the head of the
\* loop with the frame count of the next cycle at 0, the session still recording.
C25_FailedInferenceIsAnEmptyCycle == [][C25_Step]_vars

\* C25 witness: transcribe has just raised between two cycles of "hi", the
\* session going on
C25_Witness ==
    /\ step.op = "infer"
    /\ ~step.out[1].ok
    /\ results = <<"hi", "">>
    /\ events = <<Ev(1, TRUE, "hi")>>
    /\ workers[1].loc.prev_text = "hi"
    /\ _recording

\* ceil(0.5 * 16000 / 1024)
CeilChunksPerInterval ==
    (SAMPLE_RATE * 5 + 10 * FRAMES_PER_BUFFER - 1) \div (10 * FRAMES_PER_BUFFER)

\* C26: up to the first final event of a session, the worker that is about to run
\* its n-th inference cycle has appended ceil(0.5 * 16000 / 1024) = 8 frames to
\* the window for each of the n cycles.
C26_EightFramesPerCycle ==
    (workers[1].pc = "infer" /\ FinalCycles = {})
    => workers[1].loc.window = CeilChunksPerInterval * (Len(results) + 1)

\* the frames read by the session since its last final event (or its start) when
\* it is about to run cycle n: ChunksPerInterval for each cycle since then
PendingFrames(n) == ChunksPerInterval * (n - SegmentStart(n))

\* C27: the window a cycle hands to transcribe holds every frame read since the
\* last final event of the session, or since its start, the frames of the earlier
\* cycles of the segment included; and while frames are gathered for the next
\* cycle the window holds those as well.
C27_WholePendingWindow ==
    /\ workers[1].pc = "infer"
       => workers[1].loc.window = PendingFrames(Len(results) + 1)
    /\ workers[1].pc \in {"loop", "read"}
       => workers[1].loc.window
             = PendingFrames(Len(results) + 1) - ChunksPerInterval
               + workers[1].loc.chunk_count

\* C27 witness: the fifth cycle is about to run on the 14 frames read since the
\* final event of cycle 3
C27_Witness ==
    /\ workers[1].pc = "infer"
    /\ results = <<"hi", "hi", "hi", "hi">>
    /\ FinalCycles = {3}
    /\ workers[1].loc.window = 2 * ChunksPerInterval

C28_Step ==
    (workers[1].pc = "read" /\ workers'[1].pc # "read"
        /\ ~CallsOf(step'.out, "stream.read")[1].ok)
    => /\ workers'[1].loc = workers[1].loc
       /\ workers'[1].pc = "loop"
       /\ step'.out = <<Call("stream.read", "", FALSE)>>
       /\ UNCHANGED <<engine, results, events>>

\* C28: a stream.read that raised leaves the window and the frame count of the
\* cycle as they were, emits nothing, changes no engine field (the session goes
\* on), and takes the worker to the test of the stop flag, which comes before
\* the next read.
C28_FailedReadIsSkipped ==
    /\ [][C28_Step]_vars
    /\ [][workers'[1].pc = "read" /\ workers[1].pc # "read"
             => workers[1].pc = "loop" /\ ~_stop_event]_vars

\* C28 witness: a read has just failed with three frames gathered for the next
\* cycle, and they are all still there
C28_Witness ==
    /\ step = [op |-> "read", w |-> 1, out |-> <<Call("stream.read", "", FALSE)>>]
    /\ workers[1].pc = "loop"
    /\ workers[1].loc.chunk_count = 3
    /\ workers[1].loc.window = 3
    /\ _recording

C29_Step ==
    ~(/\ _stop_event
      /\ workers[1].pc # "infer"
      /\ workers'[1].pc = "infer")

\* C29: no inference cycle of the session is started while the stop flag is set
\* (after stop_recording the worker may finish a cycle it was in, and may read
\* one more frame, but that read does not start a cycle).
C29_NoNewCycleOnceStopped == [][C29_Step]_vars

C30_Step_as_stated ==
    LET pending == workers[1].loc IN
    ~(/\ _stop_event
      /\ pending.prev_text # "" /\ pending.stable_cycles < 2
      /\ CallsOf(step'.out, "final") = <<Transcript(FALSE, pending.prev_text)>>)

\* C30 as stated, recording taken to stop when stop_recording sets the flag: once
\* the flag is set with a hypothesis pending below the repeat count 2, the worker
\* emits no final event for that hypothesis before it exits.
C30_PendingTextDiscardedOnStop == [][C30_Step_as_stated]_vars

C30_Step ==
    (workers[1].pc \in {"loop", "finally"} /\ workers'[1].pc \in {"finally", "dead"})
    => /\ TranscriptsOf(step'.out) = <<>>
       /\ RoutingCallsOf(step'.out) = <<>>
       /\ events' = events
       /\ results' = results

\* C30 amended: the step in which the worker finds the stop flag set and the
\* step in which it releases the device and ends run no cycle, emit no transcript
\* event and make no routing call, whatever hypothesis is pending.
C30_LeavingTheLoopEmitsNothing == [][C30_Step]_vars

\* C30 witness: the worker has ended with "hi" pending after two cycles, both
\* events partial
C30_Witness ==
    /\ step.op = "finally"
    /\ workers[1].pc = "dead"
    /\ results = <<"hi", "hi">>
    /\ events = <<Ev(1, TRUE, "hi"), Ev(2, TRUE, "hi")>>

----------------------------------------------------------------------------
\* The engine of an application whose stored settings enable typing:
\* SettingsView._apply_settings has called set_auto_type(True) before any
\* session is started.

TypingInit == InitWith(TRUE)

TypingSpec == TypingInit /\ [][Next]_vars

\* C31: an accepted start_recording takes the window snapshot before it spawns
\* the worker and has marked the engine recording; and whenever a worker's
\* routing focuses a window and types, that window is the one captured by the
\* start call that spawned this worker (a worker whose own snapshot has no
\* window never types).
C31_TypesIntoOwnWindow ==
    /\ (step.op = "start_recording" /\ step.out # <<>>)
       => /\ step.out[1] = Call("WindowSnapshot", "", TRUE)
          /\ step.out[Len(step.out)] = Call("Thread.start", "", TRUE)
          /\ _recording
          /\ workers[_worker_thread].origin = _origin_window
    /\ step.op = "route"
       => LET own == workers[step.w].origin
              typing == IF _auto_type /\ Valid(own) THEN 1 ELSE 0 IN
          /\ Len(CallsOf(step.out, "type_text")) = typing
          /\ \A i \in 1..Len(CallsOf(step.out, "focus_window")) :
                 CallsOf(step.out, "focus_window")[i].v = own.window_id

\* a worker between its "Transcribing..." and the "Recording..." that ends the cycle
InCycle(pc) == pc \in {"infer", "route"}

C32_Step ==
    \A w \in Slots :
        LET pc   == workers[w].pc
            pc2  == workers'[w].pc
            out  == step'.out
            last == IF out = <<>> THEN Status("") ELSE out[Len(out)]
        IN
        /\ (~InCycle(pc) /\ InCycle(pc2))
           => /\ pc = "read" /\ pc2 = "infer"
              /\ last = Status("Transcribing...")
              /\ TranscriptsOf(out) = <<>>
        /\ (pc = "read" /\ pc2 = "loop")
           => CallsOf(out, "status") = <<>>
        /\ (pc = "infer" /\ pc2 = "route")
           => /\ CallsOf(out, "status") = <<>>
              /\ Len(TranscriptsOf(out)) = 1
        /\ (InCycle(pc) /\ ~InCycle(pc2))
           => /\ pc2 = "loop"
              /\ last = Status("Recording...")
              /\ CallsOf(out, "status") = <<last>>
              /\ CallsOf(out, "stream.read") = <<>>
        /\ (~InCycle(pc) /\ workers'[w] # workers[w])
           => (step'.w = w => TranscriptsOf(out) = <<>>)

\* C32: a worker that has emitted "Transcribing..." emits "Recording..." before
\* it is back in its capture loop, where alone it reads frames: the cycle is
\* opened by the read that completes the interval, with "Transcribing..." last,
\* and closed, by the inference step or after a final event by the routing
\* step, with "Recording..." last and once; transcript events are emitted only
\* by a worker inside such a cycle, and no frame is read inside one.
C32_TranscribingThenRecording ==
    /\ [](\A w \in Slots :
             (step.w = w /\ CallsOf(step.out, "stream.read") # <<>>)
             => step.op = "read")
    /\ [][C32_Step]_vars

\* C32 witness: a cycle that emitted a final event has just been closed by the
\* routing step, which had nothing to copy or type
C32_Witness ==
    /\ step.op = "route"
    /\ step.out = <<Status("Recording...")>>
    /\ workers[step.w].pc = "loop"

\* C33: whenever a worker is inside its capture loop and the cancellation flag
\* is not set, _recording is true (so that a stop_recording call made then is
\* not ignored).
C33_CapturingMeansRecording ==
    \A w \in Slots : (InCaptureLoop(w) /\ ~_stop_event) => _recording

\* the worker of the session in progress is past its first "Recording..."
SessionRecording ==
    /\ _recording
    /\ _worker_thread \in Slots
    /\ workers[_worker_thread].pc \in {"open", "loop", "read", "infer", "route"}

\* C34: once the worker of the session in progress has emitted "Recording...",
\* no step emits the status "Ready" while that session is in progress (the next
\* "Ready" is that of the stop_recording call that ends it).
C34_NoReadyWhileSessionRecords ==
    SessionRecording
    => \A i \in DOMAIN step.out : step.out[i] # Status("Ready")

----------------------------------------------------------------------------
\* The window: the record button and the system-wide hotkey drive the engine
\* through the recording view, and the settings view stores the hotkey. The
\* listener thread hands the toggle to the GTK thread (GLib.idle_add), where it
\* runs like a click.

_start_recording ==
    /\ _is_recording' = TRUE
    /\ engine_start_recording
    /\ UNCHANGED <<hotkey, _target_key>>

_stop_recording ==
    /\ _is_recording' = FALSE
    /\ engine_stop_recording
    /\ UNCHANGED <<hotkey, _target_key>>

_on_record_clicked ==
    IF _is_recording THEN _stop_recording ELSE _start_recording

toggle_recording == _on_record_clicked

\* GlobalHotkey._on_press(key): the callback runs when the key is the target
_on_press(key) ==
    IF _target_key # None /\ key = _target_key
    THEN toggle_recording
    ELSE /\ ncalls < MaxCalls
         /\ ncalls' = ncalls + 1
         /\ Emit("_on_press", 0, <<>>)
         /\ UNCHANGED <<engine, gui, files, workers, results, events>>

\* SettingsView._on_hotkey_apply(key_name); engine.set_hotkey does nothing
set_hotkey(_key_name) == UNCHANGED engine

_on_hotkey_apply(key_name) ==
    /\ ncalls < MaxCalls
    /\ ncalls' = ncalls + 1
    /\ hotkey' = key_name
    /\ set_hotkey(key_name)
    /\ Emit("_on_hotkey_apply", 0, <<Call("engine.set_hotkey", key_name, TRUE)>>)
    /\ UNCHANGED <<_is_recording, _target_key, files, workers, results, events>>

GuiNext ==
    \/ _on_record_clicked
    \/ \E key \in PynputKeys : _on_press(key)
    \/ \E key_name \in KeyNames : _on_hotkey_apply(key_name)
    \/ \E w \in Slots : Worker(w, FewRawTexts, FALSE, WindowCap)

GuiSpec == Init /\ [][GuiNext]_vars

\* C35: whenever no worker thread is running, the recording view's
\* _is_recording equals the engine's _recording (so that the next toggle starts
\* a session exactly when none is in progress).
C35_ViewAgreesWithEngine ==
    (\A w \in Slots : ~Alive(w)) => (_is_recording = _recording)

\* C36: in the event stream of a session, every final event is immediately
\* preceded by two partial events that carry exactly its text.
C36_FinalAfterTwoEqualPartials ==
    \A i \in DOMAIN events :
        ~events[i].is_partial
        => /\ i >= 3
           /\ \A j \in {i - 2, i - 1} :
                 /\ events[j].is_partial
                 /\ events[j].text = events[i].text

\* C36 witness: a session with two final events of different texts, the second
\* one at the sixth event
C36_Witness ==
    /\ Len(events) = 6
    /\ ~events[3].is_partial
    /\ ~events[6].is_partial
    /\ events[3].text # events[6].text

\* C37: set_model forces a reload at the next start: a session started after
\* set_model(m) that skips _load_model (lines 189-190) does so on a handle that
\* was loaded for m after that call.  As for C13 it is stated for the sessions
\* started with "large" selected, which were started after set_model("large"),
\* while "large" is still selected.
C37_SkippedLoadMeansFreshHandle ==
    \A w \in Slots :
        (step.op = "begin" /\ step.w = w /\ workers[w].pc = "rec"
            /\ workers[w].sel = "large" /\ _model_name = "large")
        => _model \in HandlesFor("large")

\* C38: for every identifier of MODEL_FILES the file a download leaves in
\* MODELS_DIR is the file the cache-hit check looks for; so once a handle has
\* been downloaded for an identifier, the local file of that identifier exists.
C38_DownloadedModelIsFoundLocally ==
    \A n \in DOMAIN MODEL_FILES :
        /\ DownloadedFile(ModelSize(n)) \in files => FileNameOf(n) \in files
        /\ (step.op = "loaded" /\ _model = ModelSize(n)) => FileNameOf(n) \in files

\* C39: the key the system-wide listener compares with is always the pynput
\* key of the hotkey stored in the settings (so that after an apply the toggle
\* fires for the new key and no longer for the previous one).
C39_ListenerFollowsSettings ==
    _target_key = _gdk_name_to_pynput(hotkey)

====
